---- MODULE Spec2Model ----
(***************************************************************************)
(* A model of the chess rules engine of src/src/board.rs: the Board        *)
(* (layout, move_list, player), Board::check_valid, Board::move_piece,     *)
(* PieceKind::is_move_valid and is_path_empty; and of its caller, the      *)
(* drag_and_drop system of src/src/main.rs and src/src/drag_and_drop.rs,   *)
(* with the entities that setup spawns.                                    *)
(*                                                                         *)
(* layout is indexed layout[y][x] as in the source (a Vec of rows).  An    *)
(* index outside a Vec is an index fault: the call panics, which the model *)
(* records as the result Panic.                                            *)
(***************************************************************************)
EXTENDS Integers, Sequences, FiniteSets, TLC

VARIABLES
  layout, move_list, player,  \* the fields of the Board
  picked,                     \* what the caller has picked up: <<>> or <<origin>>
  pre,                        \* the Board as it was when the last call was made
  arg,                        \* the Move passed to the last call
  ret,                        \* what the last call returned
  position,                   \* the Position component of each entity
  sprite,                     \* the place each entity's Transform draws it at
  live,                       \* the entities spawned and not despawned
  cursor_piece,               \* cursor_state.piece: <<>> or <<entity>>
  button,                     \* the left mouse button: "up" or "down"
  handler                     \* which drag_and_drop runs: "main" or "plugin"

\* the entities and the state of the pointer
ui == <<position, sprite, live, cursor_piece, button, handler>>

vars == <<layout, move_list, player, picked, pre, arg, ret, ui>>

----------------------------------------------------------------------------
(* Bounds of the model *)

\* accepted moves played from Board::default()
MaxMoves == 3
\* coordinate values a caller passes: 0..MaxCoord, beyond the grid's 0..7
MaxCoord == 9
\* accepted moves a game of drags is followed for
MaxDrops == 3

----------------------------------------------------------------------------
(* Values *)

White == "White"
Black == "Black"

\* Option::None of Square::colour and Square::kind
None == "None"

\* Square::Empty
Empty == [piece_kind |-> None, piece_colour |-> None]

\* Square::Piece { piece_colour, piece_kind }
Piece(k, c) == [piece_kind |-> k, piece_colour |-> c]

\* Square::colour
colour(s) == IF s = Empty THEN None ELSE s.piece_colour

\* Square::kind
kind(s) == IF s = Empty THEN None ELSE s.piece_kind

\* Position { x, y }
Position(px, py) == [x |-> px, y |-> py]

\* Move { old_pos, new_pos }
Move(o, n) == [old_pos |-> o, new_pos |-> n]

\* the results of check_valid and move_piece
Ok == "Ok"
ErrOrigin == "Error: Origin square is out of bounds!"
ErrDestination == "Error: Destination square is out of bounds!"
ErrEmpty == "Error: You cannot move an empty square!"
ErrOpponent == "Error: You cannot move your opponent's pieces!"
ErrOwn == "Error: You cannot capture your own pieces!"
ErrInvalid == "Error: Move is invalid!"
\* an index out of range: the call does not return
Panic == "panic: index out of bounds"

Errors == {ErrOrigin, ErrDestination, ErrEmpty, ErrOpponent, ErrOwn, ErrInvalid}

\* Vec::len of a Vec modelled as a function on 0..len-1
len(v) == Cardinality(DOMAIN v)

\* whether v[i] is an index inside the Vec
InVec(v, i) == i \in DOMAIN v

\* `as i8` of a usize
AsI8(n) == LET r == n % 256 IN IF r >= 128 THEN r - 256 ELSE r

\* i8::abs
abs(n) == IF n < 0 THEN -n ELSE n

----------------------------------------------------------------------------
(* Layouts::standard *)

\* BackRank with the King on file 3 and the Queen on file 4
BackRankKingFirst(c) ==
  [x \in 0..7 |->
     Piece(CASE x \in {0, 7} -> "Rook"
             [] x \in {1, 6} -> "Knight"
             [] x \in {2, 5} -> "Bishop"
             [] x = 3 -> "King"
             [] x = 4 -> "Queen", c)]

BackRank(c) ==
  [x \in 0..7 |->
     Piece(CASE x \in {0, 7} -> "Rook"
             [] x \in {1, 6} -> "Knight"
             [] x \in {2, 5} -> "Bishop"
             [] x = 3 -> "Queen"
             [] x = 4 -> "King", c)]

PawnRank(c) == [x \in 0..7 |-> Piece("Pawn", c)]

EmptyRank == [x \in 0..7 |-> Empty]

standard ==
  [y \in 0..7 |->
     CASE y = 0 -> BackRank(Black)
       [] y = 1 -> PawnRank(Black)
       [] y \in 2..5 -> EmptyRank
       [] y = 6 -> PawnRank(White)
       [] y = 7 -> BackRank(White)]

\* a Board value
Board(l, ml, p) == [layout |-> l, move_list |-> ml, player |-> p]

----------------------------------------------------------------------------
(* is_path_empty *)

\* FileBlocked with the scan written for one direction of travel only
FileBlockedOneWay(pm, board) ==
  \E y \in DOMAIN board.layout : \E x \in DOMAIN board.layout[y] :
     /\ board.layout[y][x] # Empty
     /\ x = pm.old_pos.x
     /\ (y > pm.old_pos.y /\ y < pm.new_pos.y)

\* first scan: a piece on the file strictly between the two rows
FileBlocked(pm, board) ==
  \E y \in DOMAIN board.layout : \E x \in DOMAIN board.layout[y] :
     /\ board.layout[y][x] # Empty
     /\ x = pm.old_pos.x
     /\ \/ (y > pm.old_pos.y /\ y < pm.new_pos.y)
        \/ (y > pm.new_pos.y /\ y < pm.old_pos.y)

\* RankBlocked with the scan written for one direction of travel only
RankBlockedOneWay(pm, board) ==
  \E y \in DOMAIN board.layout : \E x \in DOMAIN board.layout[y] :
     /\ board.layout[y][x] # Empty
     /\ y = pm.old_pos.y
     /\ (x > pm.old_pos.x /\ x < pm.new_pos.x)

\* second scan: a piece on the row strictly between the two files
RankBlocked(pm, board) ==
  \E y \in DOMAIN board.layout : \E x \in DOMAIN board.layout[y] :
     /\ board.layout[y][x] # Empty
     /\ y = pm.old_pos.y
     /\ \/ (x > pm.old_pos.x /\ x < pm.new_pos.x)
        \/ (x > pm.new_pos.x /\ x < pm.old_pos.x)

\* the i-th square of the diagonal walk
DiagPos(pm, i) ==
  IF pm.old_pos.x < pm.new_pos.x /\ pm.old_pos.y < pm.new_pos.y
    THEN <<pm.old_pos.x + i, pm.old_pos.y + i>>
  ELSE IF pm.old_pos.x < pm.new_pos.x /\ pm.old_pos.y > pm.new_pos.y
    THEN <<pm.old_pos.x + i, pm.old_pos.y - i>>
  ELSE IF pm.old_pos.x > pm.new_pos.x /\ pm.old_pos.y < pm.new_pos.y
    THEN <<pm.old_pos.x - i, pm.old_pos.y + i>>
  ELSE <<pm.old_pos.x - i, pm.old_pos.y - i>>

\* DiagBlocked with the walk running on to the destination square
DiagBlockedInclusive(pm, board) ==
  LET x_diff == abs(AsI8(pm.old_pos.x) - AsI8(pm.new_pos.x))
      y_diff == abs(AsI8(pm.old_pos.y) - AsI8(pm.new_pos.y))
  IN  /\ x_diff = y_diff
      /\ \E i \in 1..x_diff :
            kind(board.layout[DiagPos(pm, i)[2]][DiagPos(pm, i)[1]]) # None

\* third scan: a piece on the diagonal strictly between the two squares
DiagBlocked(pm, board) ==
  LET x_diff == abs(AsI8(pm.old_pos.x) - AsI8(pm.new_pos.x))
      y_diff == abs(AsI8(pm.old_pos.y) - AsI8(pm.new_pos.y))
  IN  /\ x_diff = y_diff
      /\ \E i \in 1..(x_diff - 1) :
            kind(board.layout[DiagPos(pm, i)[2]][DiagPos(pm, i)[1]]) # None

is_path_empty(pm, board) ==
  IF pm.old_pos.x = pm.new_pos.x /\ FileBlocked(pm, board) THEN FALSE
  ELSE IF pm.old_pos.y = pm.new_pos.y /\ RankBlocked(pm, board) THEN FALSE
  ELSE IF DiagBlocked(pm, board) THEN FALSE
  ELSE TRUE

----------------------------------------------------------------------------
(* PieceKind::is_move_valid *)

\* old_pos.x as i8 - new_pos.x as i8
DX(pos) == AsI8(pos.old_pos.x) - AsI8(pos.new_pos.x)

\* old_pos.y as i8 - new_pos.y as i8
DY(pos) == AsI8(pos.old_pos.y) - AsI8(pos.new_pos.y)

\* KingValid without the diagonal step
KingValidNoDiagonal(pos) ==
  \/ (abs(DX(pos)) = 1 /\ pos.old_pos.y = pos.new_pos.y)
  \/ (abs(DY(pos)) = 1 /\ pos.old_pos.x = pos.new_pos.x)

KingValid(pos) ==
  \/ (abs(DX(pos)) = 1 /\ pos.old_pos.y = pos.new_pos.y)
  \/ (abs(DY(pos)) = 1 /\ pos.old_pos.x = pos.new_pos.x)
  \/ (abs(DX(pos)) = 1 /\ abs(DY(pos)) = 1)

\* KnightValid without the two-files-one-row shape
KnightValidTall(pos) ==
  \/ (abs(DX(pos)) = 1 /\ abs(DY(pos)) = 2)

KnightValid(pos) ==
  \/ (abs(DX(pos)) = 2 /\ abs(DY(pos)) = 1)
  \/ (abs(DX(pos)) = 1 /\ abs(DY(pos)) = 2)

\* PawnValid with the row differences taken through abs(), as the other
\* pieces' arms take them
PawnValidEitherWay(pos, step, board) ==
  \/ /\ is_path_empty(pos, board)
     /\ abs(DY(pos)) = 1
     /\ abs(DX(pos)) = 1
     /\ kind(board.layout[pos.new_pos.y][pos.new_pos.x]) # None
  \/ /\ abs(DY(pos)) = 1
     /\ is_path_empty(pos, board)
     /\ kind(board.layout[pos.new_pos.y][pos.new_pos.x]) = None
     /\ pos.old_pos.x = pos.new_pos.x
  \/ /\ abs(DY(pos)) = 2
     /\ is_path_empty(pos, board)
     /\ pos.old_pos.x = pos.new_pos.x

\* PawnValid without the empty-destination test of the single advance
PawnValidPushOntoAny(pos, step, board) ==
  \/ /\ is_path_empty(pos, board)
     /\ DY(pos) = step
     /\ abs(DX(pos)) = 1
     /\ kind(board.layout[pos.new_pos.y][pos.new_pos.x]) # None
  \/ /\ DY(pos) = step
     /\ is_path_empty(pos, board)
     /\ pos.old_pos.x = pos.new_pos.x
  \/ /\ DY(pos) = 2 * step
     /\ is_path_empty(pos, board)
     /\ pos.old_pos.x = pos.new_pos.x

\* PawnValid without the occupied-destination test of the capture
PawnValidDiagonalAnywhere(pos, step, board) ==
  \/ /\ is_path_empty(pos, board)
     /\ DY(pos) = step
     /\ abs(DX(pos)) = 1
  \/ /\ DY(pos) = step
     /\ is_path_empty(pos, board)
     /\ kind(board.layout[pos.new_pos.y][pos.new_pos.x]) = None
     /\ pos.old_pos.x = pos.new_pos.x
  \/ /\ DY(pos) = 2 * step
     /\ is_path_empty(pos, board)
     /\ pos.old_pos.x = pos.new_pos.x

\* PawnValid without the same-file test of the double advance
PawnValidAnyFile(pos, step, board) ==
  \/ /\ is_path_empty(pos, board)
     /\ DY(pos) = step
     /\ abs(DX(pos)) = 1
     /\ kind(board.layout[pos.new_pos.y][pos.new_pos.x]) # None
  \/ /\ DY(pos) = step
     /\ is_path_empty(pos, board)
     /\ kind(board.layout[pos.new_pos.y][pos.new_pos.x]) = None
     /\ pos.old_pos.x = pos.new_pos.x
  \/ /\ DY(pos) = 2 * step
     /\ is_path_empty(pos, board)
     /\ TRUE

\* PawnValid with the double advance allowed from rows 1 and 6 only
PawnValidHomeRank(pos, step, board) ==
  \/ /\ is_path_empty(pos, board)
     /\ DY(pos) = step
     /\ abs(DX(pos)) = 1
     /\ kind(board.layout[pos.new_pos.y][pos.new_pos.x]) # None
  \/ /\ DY(pos) = step
     /\ is_path_empty(pos, board)
     /\ kind(board.layout[pos.new_pos.y][pos.new_pos.x]) = None
     /\ pos.old_pos.x = pos.new_pos.x
  \/ /\ DY(pos) = 2 * step
     /\ is_path_empty(pos, board)
     /\ pos.old_pos.x = pos.new_pos.x
     /\ pos.old_pos.y \in {1, 6}

\* PawnValid with the double advance allowed only to a pawn that no move of
\* move_list has brought to its square
PawnValidUnmoved(pos, step, board) ==
  \/ /\ is_path_empty(pos, board)
     /\ DY(pos) = step
     /\ abs(DX(pos)) = 1
     /\ kind(board.layout[pos.new_pos.y][pos.new_pos.x]) # None
  \/ /\ DY(pos) = step
     /\ is_path_empty(pos, board)
     /\ kind(board.layout[pos.new_pos.y][pos.new_pos.x]) = None
     /\ pos.old_pos.x = pos.new_pos.x
  \/ /\ DY(pos) = 2 * step
     /\ is_path_empty(pos, board)
     /\ pos.old_pos.x = pos.new_pos.x
     /\ \A i \in DOMAIN board.move_list :
           board.move_list[i].new_pos # pos.old_pos

\* the Pawn arm; step is -1 for Black and 1 for White (old_pos.y - new_pos.y)
PawnValid(pos, step, board) ==
  \/ /\ is_path_empty(pos, board)
     /\ DY(pos) = step
     /\ abs(DX(pos)) = 1
     /\ kind(board.layout[pos.new_pos.y][pos.new_pos.x]) # None
  \/ /\ DY(pos) = step
     /\ is_path_empty(pos, board)
     /\ kind(board.layout[pos.new_pos.y][pos.new_pos.x]) = None
     /\ pos.old_pos.x = pos.new_pos.x
  \/ /\ DY(pos) = 2 * step
     /\ is_path_empty(pos, board)
     /\ pos.old_pos.x = pos.new_pos.x

\* the straight-line test shared by the Queen and Rook arms
Straight(pos) ==
  \/ (pos.old_pos.x = pos.new_pos.x /\ pos.old_pos.y # pos.new_pos.y)
  \/ (pos.old_pos.y = pos.new_pos.y /\ pos.old_pos.x # pos.new_pos.x)

\* the diagonal test shared by the Queen and Bishop arms
Diagonal(pos) == abs(DX(pos)) = abs(DY(pos))

\* QueenValid without the straight lines
QueenValidDiagonalOnly(pos, board) ==
  is_path_empty(pos, board) /\ Diagonal(pos)

QueenValid(pos, board) ==
  is_path_empty(pos, board) /\ (Diagonal(pos) \/ Straight(pos))

\* BishopValid without the path scan
BishopValidNoPath(pos, board) == Diagonal(pos)

\* BishopValid with the Queen's lines
BishopValidAsQueen(pos, board) ==
  is_path_empty(pos, board) /\ (Diagonal(pos) \/ Straight(pos))

BishopValid(pos, board) == is_path_empty(pos, board) /\ Diagonal(pos)

RookValid(pos, board) == is_path_empty(pos, board) /\ Straight(pos)

is_move_valid(k, pos, c, board) ==
  CASE k = "King" -> KingValid(pos)
    [] k = "Knight" -> KnightValid(pos)
    [] k = "Pawn" -> PawnValid(pos, IF c = Black THEN -1 ELSE 1, board)
    [] k = "Queen" -> QueenValid(pos, board)
    [] k = "Bishop" -> BishopValid(pos, board)
    [] k = "Rook" -> RookValid(pos, board)

----------------------------------------------------------------------------
(* Board::check_valid *)

\* BoundsCheck without the four tests against len(): only the indexing
BoundsCheckNoTests(board, piece_move) ==
  IF ~InVec(board.layout, piece_move.old_pos.y) THEN Panic
  ELSE IF ~InVec(board.layout, piece_move.new_pos.y) THEN Panic
  ELSE IF ~InVec(board.layout[piece_move.old_pos.y], piece_move.old_pos.x)
    THEN Panic
  ELSE IF ~InVec(board.layout[piece_move.new_pos.y], piece_move.new_pos.x)
    THEN Panic
  ELSE Ok

\* the four out-of-bounds tests and the two square reads that follow them
BoundsCheck(board, piece_move) ==
  IF piece_move.old_pos.y > len(board.layout) THEN ErrOrigin
  ELSE IF ~InVec(board.layout, piece_move.old_pos.y) THEN Panic
  ELSE IF piece_move.old_pos.x > len(board.layout[piece_move.old_pos.y])
    THEN ErrOrigin
  ELSE IF piece_move.new_pos.y > len(board.layout) THEN ErrDestination
  ELSE IF ~InVec(board.layout, piece_move.new_pos.y) THEN Panic
  ELSE IF piece_move.new_pos.x > len(board.layout[piece_move.new_pos.y])
    THEN ErrDestination
  ELSE IF ~InVec(board.layout[piece_move.old_pos.y], piece_move.old_pos.x)
    THEN Panic
  ELSE IF ~InVec(board.layout[piece_move.new_pos.y], piece_move.new_pos.x)
    THEN Panic
  ELSE Ok

\* RulesCheck without the test for the opponent's pieces
RulesCheckNoOwner(board, piece_move) ==
  LET old_square == board.layout[piece_move.old_pos.y][piece_move.old_pos.x]
      new_square == board.layout[piece_move.new_pos.y][piece_move.new_pos.x]
      piece_colour == colour(old_square)
  IN  IF piece_colour = None THEN ErrEmpty
      ELSE IF colour(new_square) # None /\ board.player = colour(new_square)
        THEN ErrOwn
      ELSE IF ~is_move_valid(kind(old_square), piece_move, piece_colour, board)
        THEN ErrInvalid
      ELSE Ok

\* RulesCheck without the test for the player's own pieces
RulesCheckNoOwnCapture(board, piece_move) ==
  LET old_square == board.layout[piece_move.old_pos.y][piece_move.old_pos.x]
      piece_colour == colour(old_square)
  IN  IF piece_colour = None THEN ErrEmpty
      ELSE IF board.player # piece_colour THEN ErrOpponent
      ELSE IF ~is_move_valid(kind(old_square), piece_move, piece_colour, board)
        THEN ErrInvalid
      ELSE Ok

\* RulesCheck with the moved piece's colour read from the destination square
RulesCheckDestinationColour(board, piece_move) ==
  LET old_square == board.layout[piece_move.old_pos.y][piece_move.old_pos.x]
      new_square == board.layout[piece_move.new_pos.y][piece_move.new_pos.x]
      piece_colour == colour(new_square)
  IN  IF piece_colour = None THEN ErrEmpty
      ELSE IF board.player # piece_colour THEN ErrOpponent
      ELSE IF colour(new_square) # None /\ board.player = colour(new_square)
        THEN ErrOwn
      ELSE IF ~is_move_valid(kind(old_square), piece_move, piece_colour, board)
        THEN ErrInvalid
      ELSE Ok

\* RulesCheck with a King on the destination square refused
RulesCheckKingSafe(board, piece_move) ==
  LET old_square == board.layout[piece_move.old_pos.y][piece_move.old_pos.x]
      new_square == board.layout[piece_move.new_pos.y][piece_move.new_pos.x]
      piece_colour == colour(old_square)
  IN  IF piece_colour = None THEN ErrEmpty
      ELSE IF board.player # piece_colour THEN ErrOpponent
      ELSE IF colour(new_square) # None /\ board.player = colour(new_square)
        THEN ErrOwn
      ELSE IF kind(new_square) = "King" THEN ErrInvalid
      ELSE IF ~is_move_valid(kind(old_square), piece_move, piece_colour, board)
        THEN ErrInvalid
      ELSE Ok

\* the checks on the two squares read: empty origin, opponent's piece,
\* own piece on the destination, then the piece's own rule
RulesCheck(board, piece_move) ==
  LET old_square == board.layout[piece_move.old_pos.y][piece_move.old_pos.x]
      new_square == board.layout[piece_move.new_pos.y][piece_move.new_pos.x]
      piece_colour == colour(old_square)
  IN  IF piece_colour = None THEN ErrEmpty
      ELSE IF board.player # piece_colour THEN ErrOpponent
      ELSE IF colour(new_square) # None /\ board.player = colour(new_square)
        THEN ErrOwn
      ELSE IF ~is_move_valid(kind(old_square), piece_move, piece_colour, board)
        THEN ErrInvalid
      ELSE Ok

check_valid(board, piece_move) ==
  IF BoundsCheck(board, piece_move) # Ok
    THEN BoundsCheck(board, piece_move)
    ELSE RulesCheck(board, piece_move)

----------------------------------------------------------------------------
(* Board::move_piece *)

\* next_turn with both arms giving Black
next_turn_stuck(p) == IF p = White THEN Black ELSE Black

\* Board::next_turn
next_turn(p) == IF p = White THEN Black ELSE White

\* MovedLayout with the origin square read but not replaced
MovedLayoutCopy(l, piece_move) ==
  LET moved_piece == l[piece_move.old_pos.y][piece_move.old_pos.x]
  IN  [l EXCEPT ![piece_move.new_pos.y][piece_move.new_pos.x] = moved_piece]

\* MovedLayout with the piece on the destination put back on the origin
MovedLayoutSwap(l, piece_move) ==
  LET moved_piece == l[piece_move.old_pos.y][piece_move.old_pos.x]
      taken_piece == l[piece_move.new_pos.y][piece_move.new_pos.x]
      taken == [l EXCEPT ![piece_move.old_pos.y][piece_move.old_pos.x] =
                           taken_piece]
  IN  [taken EXCEPT ![piece_move.new_pos.y][piece_move.new_pos.x] = moved_piece]

\* mem::replace of the origin square by Empty, then the write of the moved
\* piece to the destination square
MovedLayout(l, piece_move) ==
  LET moved_piece == l[piece_move.old_pos.y][piece_move.old_pos.x]
      taken == [l EXCEPT ![piece_move.old_pos.y][piece_move.old_pos.x] = Empty]
  IN  [taken EXCEPT ![piece_move.new_pos.y][piece_move.new_pos.x] = moved_piece]

\* move_piece with the move pushed on move_list before the check
move_piece_push_first(board, piece_move) ==
  LET r == check_valid(board, piece_move)
      pushed == Append(board.move_list, piece_move)
  IN  IF r # Ok
        THEN [board |-> Board(board.layout, pushed, board.player), ret |-> r]
        ELSE [board |-> Board(MovedLayout(board.layout, piece_move),
                              pushed,
                              next_turn(board.player)),
              ret |-> Ok]

\* move_piece with the move put at the front of move_list
move_piece_push_front(board, piece_move) ==
  LET r == check_valid(board, piece_move)
  IN  IF r # Ok
        THEN [board |-> board, ret |-> r]
        ELSE [board |-> Board(MovedLayout(board.layout, piece_move),
                              <<piece_move>> \o board.move_list,
                              next_turn(board.player)),
              ret |-> Ok]

\* move_piece with the turn passed on a move the piece's rule refuses
move_piece_turn_on_invalid(board, piece_move) ==
  LET r == check_valid(board, piece_move)
  IN  IF r = ErrInvalid
        THEN [board |-> Board(board.layout, board.move_list,
                              next_turn(board.player)),
              ret |-> r]
      ELSE IF r # Ok
        THEN [board |-> board, ret |-> r]
        ELSE [board |-> Board(MovedLayout(board.layout, piece_move),
                              Append(board.move_list, piece_move),
                              next_turn(board.player)),
              ret |-> Ok]

\* move_piece without the push on move_list
move_piece_no_push(board, piece_move) ==
  LET r == check_valid(board, piece_move)
  IN  IF r # Ok
        THEN [board |-> board, ret |-> r]
        ELSE [board |-> Board(MovedLayout(board.layout, piece_move),
                              board.move_list,
                              next_turn(board.player)),
              ret |-> Ok]

\* the board after the call and the value the call returns
move_piece(board, piece_move) ==
  LET r == check_valid(board, piece_move)
  IN  IF r # Ok
        THEN [board |-> board, ret |-> r]
        ELSE [board |-> Board(MovedLayout(board.layout, piece_move),
                              Append(board.move_list, piece_move),
                              next_turn(board.player)),
              ret |-> Ok]

----------------------------------------------------------------------------------------------------------------------------------------
(* The state: one Board, its caller, the last call and what it returned *)

\* the Board held in the variables
Self == Board(layout, move_list, player)

\* no call made
NoMove == Move(Position(0, 0), Position(0, 0))

\* a call made that has not returned
Pending == "Pending"

\* Default with Black to move first
DefaultBlackFirst == Board(standard, <<>>, Black)

\* impl Default for Board
Default == Board(standard, <<>>, White)

\* the files whose squares the playing caller picks up from and drops on
PlayFiles == {0, 1}

PlaySquares == {Position(px, py) : px \in PlayFiles, py \in 0..7}

\* the rows the pointer goes over: the pawns' rows and the rows their
\* double advances and first captures reach
PointerRows == {1, 3, 4, 6}

\* the squares the pointer goes over
UISquares == {p \in PlaySquares : p.y \in PointerRows}

\* the tile that setup spawns for the square at position p
Tile(p) == [tile |-> TRUE, at |-> p]

\* the piece entity that setup spawns on the square at position p
PieceEnt(p) == [tile |-> FALSE, at |-> p]

\* the entities of the squares the pointer reaches
Entities ==
  {Tile(p) : p \in UISquares}
    \cup {PieceEnt(p) : p \in {q \in UISquares : standard[q.y][q.x] # Empty}}

\* the Square component of a piece entity: the copy setup made
SquareOf(e) == standard[e.at.y][e.at.x]

\* a place of the pointer or of a sprite off every square
Outside == Position(-1, -1)

\* the places of the pointer: on a square, or off every square
Places == UISquares \cup {Outside}

\* the entities as setup spawns them, the pointer as CursorState::default()
setup ==
  /\ position = [e \in Entities |-> e.at]
  /\ sprite = [e \in Entities |-> e.at]
  /\ live = Entities
  /\ cursor_piece = <<>>
  /\ button = "up"

\* the moves of any caller: four unsigned coordinates
Coords == 0..MaxCoord

AllMoves ==
  {Move(Position(ox, oy), Position(nx, ny)) :
     ox \in Coords, oy \in Coords, nx \in Coords, ny \in Coords}

\* the call board.move_piece(m) on the Board in the variables
Apply(m) ==
  /\ \E r \in {move_piece(Self, m)} :
        /\ layout' = r.board.layout
        /\ move_list' = r.board.move_list
        /\ player' = r.board.player
        /\ ret' = r.ret
  /\ pre' = Self
  /\ arg' = m

Init ==
  /\ layout = Default.layout
  /\ move_list = Default.move_list
  /\ player = Default.player
  /\ picked = <<>>
  /\ pre = Default
  /\ arg = NoMove
  /\ ret = None
  /\ setup
  /\ handler = "main"

\* a left press on square o: the caller picks up what is drawn there; the
\* result of the call before is gone; a panic has ended the program
Pick(o) ==
  /\ picked = <<>>
  /\ ret # Panic
  /\ Len(move_list) < MaxMoves
  /\ picked' = <<o>>
  /\ pre' = Self
  /\ arg' = NoMove
  /\ ret' = None
  /\ UNCHANGED <<layout, move_list, player, ui>>

\* the release on square n: board.move_piece(Move { old_pos, new_pos })
MovePiece(n) ==
  /\ picked # <<>>
  /\ Apply(Move(picked[1], n))
  /\ picked' = <<>>
  /\ UNCHANGED ui

Next ==
  \/ \E o \in PlaySquares : Pick(o)
  \/ \E n \in PlaySquares : MovePiece(n)

Spec == Init /\ [][Next]_vars

----------------------------------------------------------------------------
(* One call with any Move on a Board reached from Board::default() *)

\* a game played from Board::default(); every prefix of it is a Board
Line ==
  << Move(Position(0, 6), Position(0, 4)),
     Move(Position(1, 1), Position(1, 3)),
     Move(Position(0, 7), Position(0, 5)),
     Move(Position(2, 0), Position(0, 2)),
     Move(Position(4, 6), Position(4, 5)),
     Move(Position(3, 1), Position(3, 3)),
     Move(Position(3, 7), Position(6, 4)),
     Move(Position(1, 0), Position(2, 2)),
     Move(Position(5, 7), Position(2, 4)),
     Move(Position(4, 1), Position(4, 3)),
     Move(Position(0, 5), Position(3, 5)),
     Move(Position(4, 3), Position(4, 4)),
     Move(Position(6, 4), Position(4, 2)),
     Move(Position(7, 1), Position(7, 2)),
     Move(Position(4, 2), Position(4, 0)),
     Move(Position(7, 2), Position(7, 3)) >>

RECURSIVE Replay(_)
\* the Board after board.move_piece of the first n moves of Line
Replay(n) ==
  IF n = 0 THEN Default ELSE move_piece(Replay(n - 1), Line[n]).board

Boards == {Replay(n) : n \in 0..Len(Line)}

InitCall ==
  /\ \E b \in Boards :
        /\ layout = b.layout
        /\ move_list = b.move_list
        /\ player = b.player
        /\ pre = b
  /\ picked = <<>>
  /\ arg \in AllMoves
  /\ ret = Pending
  /\ setup
  /\ handler = "main"

\* the call board.move_piece(arg)
Call ==
  /\ ret = Pending
  /\ Apply(arg)
  /\ UNCHANGED <<picked, ui>>

NextCall == Call

SpecCall == InitCall /\ [][NextCall]_vars

----------------------------------------------------------------------------
(* One call on Board::default() with coordinates around the limits of i8 *)

\* usize values on both sides of len() = 8, of i8::MAX = 127 and of 2^8
WideCoords == {0, 1, 7, 8, 9, 127, 128, 129, 255, 256}

WideMoves ==
  {Move(Position(ox, oy), Position(nx, ny)) :
     ox \in WideCoords, oy \in WideCoords,
     nx \in WideCoords, ny \in WideCoords}

InitCast ==
  /\ layout = Default.layout
  /\ move_list = Default.move_list
  /\ player = Default.player
  /\ pre = Default
  /\ picked = <<>>
  /\ arg \in WideMoves
  /\ ret = Pending
  /\ setup
  /\ handler = "main"

SpecCast == InitCast /\ [][NextCall]_vars

----------------------------------------------------------------------------
(* The drag_and_drop system: presses and releases of the left button *)
(* The pointer is on a square of UISquares or off the board when a        *)
(* button event arrives; the entities are the tiles and the pieces of      *)
(* those squares.  The camera and the text entity, which the query of      *)
(* main.rs also yields, are hit only within half a pixel of their          *)
(* translation and are left out.                                           *)

\* the entities the pointer at place c is on: diff.length() < scale.x / 2
Under(c) == {e \in live : c # Outside /\ sprite[e] = c}

\* the entities a press picks among: every entity of the query in main.rs,
\* those with a Square component in drag_and_drop.rs
Pickable(e) == handler = "main" \/ ~e.tile

\* the values an Option<Entity> ends with after a for_each over the entities
\* of S, whose order the query does not fix: none, or any one of S
LastOf(S) == IF S = {} THEN {{}} ELSE {{e} : e \in S}

\* Despawned with the entity despawned whatever the call returned
DespawnedAlways(r, closest_piece) == live \ closest_piece

\* the live entities after the match on the result r of move_piece
Despawned(r, closest_piece) == IF r = Ok THEN live \ closest_piece ELSE live

\* a left press with the pointer at place c
Press(c) ==
  /\ button = "up"
  /\ Len(move_list) < MaxDrops
  /\ button' = "down"
  /\ IF cursor_piece # <<>>
       THEN \* a drag is still on: the pressed branch moves its sprite
            /\ sprite' = [sprite EXCEPT ![cursor_piece[1]] = c]
            /\ UNCHANGED cursor_piece
       ELSE /\ \E hit \in LastOf({e \in Under(c) : Pickable(e)}) :
                 cursor_piece' = IF hit = {} THEN <<>>
                                 ELSE <<CHOOSE e \in hit : TRUE>>
            /\ UNCHANGED sprite
  /\ pre' = Self
  /\ arg' = NoMove
  /\ ret' = None
  /\ UNCHANGED <<layout, move_list, player, picked, position, live, handler>>

\* the release finds no tile under the pointer
NoSquare(e, c) ==
  /\ IF handler = "main"
       THEN \* return: the sprite stays where it was dropped
            /\ sprite' = [sprite EXCEPT ![e] = c]
            /\ UNCHANGED cursor_piece
       ELSE \* the sprite goes back and the drag ends
            /\ sprite' = [sprite EXCEPT ![e] = position[e]]
            /\ cursor_piece' = <<>>
  /\ pre' = Self
  /\ arg' = NoMove
  /\ ret' = None
  /\ UNCHANGED <<layout, move_list, player, position, live>>

\* the release over the tile closest_square with closest_piece (no entity or
\* one) under the pointer: board.move_piece and the match on its result
Drop(e, closest_square, closest_piece) ==
  LET piece_move == Move(position[e], position[closest_square])
      r == move_piece(Self, piece_move).ret
  IN  /\ Apply(piece_move)
      /\ position' = IF r = Ok
                       THEN [position EXCEPT ![e] = position[closest_square]]
                       ELSE position
      /\ sprite' = [sprite EXCEPT ![e] = IF r = Ok
                                           THEN position[closest_square]
                                           ELSE position[e]]
      /\ live' = Despawned(r, closest_piece)
      /\ cursor_piece' = <<>>

\* a left release with the pointer at place c; the dragged entity's sprite
\* is under the pointer
Release(c) ==
  /\ button = "down"
  /\ button' = "up"
  /\ IF cursor_piece = <<>>
       THEN /\ pre' = Self
            /\ arg' = NoMove
            /\ ret' = None
            /\ UNCHANGED <<layout, move_list, player, position, sprite, live,
                           cursor_piece>>
       ELSE LET e == cursor_piece[1]
                squares == {t \in live : t.tile /\ (t = e \/ t \in Under(c))}
                pieces == {q \in Under(c) : ~q.tile /\ q # e}
            IN  IF squares = {}
                  THEN NoSquare(e, c)
                  ELSE \E closest_square \in squares :
                       \E closest_piece \in LastOf(pieces) :
                          Drop(e, closest_square, closest_piece)
  /\ UNCHANGED <<picked, handler>>

InitUI ==
  /\ layout = Default.layout
  /\ move_list = Default.move_list
  /\ player = Default.player
  /\ picked = <<>>
  /\ pre = Default
  /\ arg = NoMove
  /\ ret = None
  /\ setup
  /\ handler \in {"main", "plugin"}

NextUI ==
  \/ \E c \in Places : Press(c)
  \/ \E c \in Places : Release(c)

SpecUI == InitUI /\ [][NextUI]_vars

\* every move of Line is accepted
LineAccepted == \A n \in 0..Len(Line) : Len(Replay(n).move_list) = n

----------------------------------------------------------------------------
(* What the properties speak of *)

\* the last call returned a value
Returned == ret \in Errors \cup {Ok}

\* the last call returned or panicked
Called == Returned \/ ret = Panic

\* all four coordinates of m are on the 8x8 grid
InBounds(m) ==
  /\ m.old_pos.x \in 0..7 /\ m.old_pos.y \in 0..7
  /\ m.new_pos.x \in 0..7 /\ m.new_pos.y \in 0..7

\* the square of position p on layout l
At(l, p) == l[p.y][p.x]

\* the 64 positions of the grid
Grid == {Position(px, py) : px \in 0..7, py \in 0..7}

----------------------------------------------------------------------------
(* C1 *)

\* C1: when move_piece returns an error, layout, player and move_list are
\* exactly what they were before the call.
RejectionLeavesBoard ==
  ret \in Errors =>
    /\ layout = pre.layout
    /\ player = pre.player
    /\ move_list = pre.move_list

\* a rule violation rejected on a board that has a history
RejectionLeavesBoardWitness ==
  /\ ret = ErrInvalid
  /\ Len(pre.move_list) = 2
  /\ InBounds(arg)
  /\ At(pre.layout, arg.old_pos).piece_kind = "Pawn"

----------------------------------------------------------------------------
(* C2 *)

\* C2: after an accepted call the side to move is the opposite colour from
\* before the call; after a rejected call, and after any other step, it is the
\* colour it was.
TurnAlternation ==
  /\ ret = Ok => player # pre.player /\ player \in {White, Black}
  /\ ret # Ok => player = pre.player

\* a rejected call after two accepted ones: White, Black, and White again
TurnAlternationWitness ==
  /\ ret \in Errors
  /\ Len(move_list) = 2
  /\ player = White

----------------------------------------------------------------------------
(* C3 *)

\* C3: after an accepted move the origin square is Empty, the destination
\* holds the piece that stood on the origin, and the other 62 squares are as
\* they were.
AcceptedMoveEffect ==
  ret = Ok =>
    /\ At(layout, arg.old_pos) = Empty
    /\ At(layout, arg.new_pos) = At(pre.layout, arg.old_pos)
    /\ At(layout, arg.new_pos) # Empty
    /\ \A p \in Grid \ {arg.old_pos, arg.new_pos} :
          At(layout, p) = At(pre.layout, p)
    /\ Cardinality(Grid \ {arg.old_pos, arg.new_pos}) = 62

\* the piece_move test: the White pawn (0,6) to (0,5) on the standard layout
AcceptedMoveEffectWitness ==
  /\ ret = Ok
  /\ pre = Default
  /\ arg = Move(Position(0, 6), Position(0, 5))
  /\ layout[5][0] = Piece("Pawn", White)

----------------------------------------------------------------------------
(* C4 *)

\* C4: every call of move_piece returns Ok or an error; none reaches an index
\* outside the grid.
NoIndexFault == ret # Panic

----------------------------------------------------------------------------
(* C5 *)

\* the out-of-bounds errors
OutOfBounds == {ErrOrigin, ErrDestination}

\* C5: a move in which a coordinate is 8 or more is rejected with the
\* out-of-bounds error, whichever of the four fields it is.
OutOfRangeRejected ==
  (Called /\ ~InBounds(arg)) => ret \in OutOfBounds

----------------------------------------------------------------------------
(* C6 *)

\* the error of the first check of the stated order that the move fails on
\* board b, for the four checks that come before the piece's own rule
FirstFailure(b, m) ==
  IF ~InBounds(m) THEN OutOfBounds
  ELSE IF At(b.layout, m.old_pos) = Empty THEN {ErrEmpty}
  ELSE IF At(b.layout, m.old_pos).piece_colour # b.player THEN {ErrOpponent}
  ELSE IF At(b.layout, m.new_pos) # Empty
          /\ At(b.layout, m.new_pos).piece_colour = b.player THEN {ErrOwn}
  ELSE {ErrInvalid, Ok}

\* C6: the checks run in the order bounds, empty origin, ownership,
\* self-capture, geometry, and the result is that of the first one failed.
FirstFailureWins == Called => ret \in FirstFailure(pre, arg)

----------------------------------------------------------------------------
(* C7 *)

\* C7: an in-bounds move of a piece that is not the side to move's is rejected
\* with the wrong-player error, whatever the destination and the geometry.
OpponentPieceRejected ==
  (Called /\ InBounds(arg)
     /\ At(pre.layout, arg.old_pos) # Empty
     /\ At(pre.layout, arg.old_pos).piece_colour # pre.player)
  => ret = ErrOpponent

\* a Black pawn's capture of a White pawn, of valid geometry, on White's turn
OpponentPieceRejectedWitness ==
  /\ ret = ErrOpponent
  /\ pre.player = White
  /\ arg = Move(Position(1, 3), Position(0, 4))
  /\ At(pre.layout, arg.old_pos) = Piece("Pawn", Black)
  /\ At(pre.layout, arg.new_pos) = Piece("Pawn", White)

----------------------------------------------------------------------------
(* C8 *)

\* C8: an in-bounds move by the side to move onto a piece of its own colour is
\* rejected with the self-capture error; no accepted move takes a piece of the
\* moving colour.
SelfCaptureRejected ==
  /\ (Called /\ InBounds(arg)
        /\ At(pre.layout, arg.old_pos) # Empty
        /\ At(pre.layout, arg.old_pos).piece_colour = pre.player
        /\ At(pre.layout, arg.new_pos) # Empty
        /\ At(pre.layout, arg.new_pos).piece_colour = pre.player)
     => ret = ErrOwn
  /\ ret = Ok => colour(At(pre.layout, arg.new_pos)) # pre.player

\* the White King (4,7) to (5,7), onto its own Bishop, on the starting board
SelfCaptureRejectedWitness ==
  /\ ret = ErrOwn
  /\ pre = Default
  /\ arg = Move(Position(4, 7), Position(5, 7))

----------------------------------------------------------------------------
(* C9 *)

\* C9: an in-bounds move from an Empty square is rejected with the
\* empty-origin error, whoever is to move and whatever the destination holds.
EmptyOriginRejected ==
  (Called /\ InBounds(arg) /\ At(pre.layout, arg.old_pos) = Empty)
  => ret = ErrEmpty

\* (4,4) to (4,5) on the starting board
EmptyOriginRejectedWitness ==
  /\ ret = ErrEmpty
  /\ pre = Default
  /\ arg = Move(Position(4, 4), Position(4, 5))

----------------------------------------------------------------------------
(* C10 *)

\* the sign of an integer
Sign(n) == IF n < 0 THEN -1 ELSE IF n > 0 THEN 1 ELSE 0

\* the longer of the two coordinate distances of m
Reach(m) ==
  LET ax == abs(m.new_pos.x - m.old_pos.x)
      ay == abs(m.new_pos.y - m.old_pos.y)
  IN  IF ax > ay THEN ax ELSE ay

\* the squares strictly between the origin and the destination of a move
\* along a file, a rank or a diagonal
Interior(m) ==
  {Position(m.old_pos.x + i * Sign(m.new_pos.x - m.old_pos.x),
            m.old_pos.y + i * Sign(m.new_pos.y - m.old_pos.y)) :
     i \in 1..(Reach(m) - 1)}

\* m runs along a line the piece kind k slides on
OnLine(k, m) ==
  LET ax == abs(m.new_pos.x - m.old_pos.x)
      ay == abs(m.new_pos.y - m.old_pos.y)
      straight == (ax = 0) # (ay = 0)
      diagonal == ax = ay /\ ax > 0
  IN  CASE k = "Rook" -> straight
        [] k = "Bishop" -> diagonal
        [] k = "Queen" -> straight \/ diagonal
        [] OTHER -> FALSE

\* the last call moved a Rook, Bishop or Queen of the side to move along its
\* line to a square not held by that side
SliderCall ==
  /\ Called /\ InBounds(arg)
  /\ At(pre.layout, arg.old_pos) # Empty
  /\ At(pre.layout, arg.old_pos).piece_colour = pre.player
  /\ colour(At(pre.layout, arg.new_pos)) # pre.player
  /\ OnLine(At(pre.layout, arg.old_pos).piece_kind, arg)

\* C10: a Rook, Bishop or Queen move along its line is rejected with the
\* illegal-geometry error when a piece of either colour stands strictly
\* between origin and destination, and accepted when none does.
SlidingObstruction ==
  SliderCall =>
    IF \E p \in Interior(arg) : At(pre.layout, p) # Empty
      THEN ret = ErrInvalid
      ELSE ret = Ok

\* the White Rook (0,7) to (0,5), rejected on the starting board, accepted on
\* White's second turn once the pawn has left (0,6)
SlidingObstructionWitness ==
  /\ ret = Ok
  /\ arg = Move(Position(0, 7), Position(0, 5))
  /\ Len(pre.move_list) = 2
  /\ At(Default.layout, Position(0, 6)) = Piece("Pawn", White)
  /\ At(pre.layout, Position(0, 6)) = Empty
  /\ At(layout, Position(0, 5)) = Piece("Rook", White)

----------------------------------------------------------------------------
(* Pawns *)

\* the last call moved a piece of kind k of the side to move, in bounds, to a
\* square not held by that side
PieceCall(k) ==
  /\ Called /\ InBounds(arg)
  /\ At(pre.layout, arg.old_pos) = Piece(k, pre.player)
  /\ colour(At(pre.layout, arg.new_pos)) # pre.player

\* the change of file and of row of a move
FileStep(m) == m.new_pos.x - m.old_pos.x
RowStep(m) == m.new_pos.y - m.old_pos.y

\* the row step toward the other colour's back rank on the standard layout
Forward(c) == IF c = White THEN -1 ELSE 1

----------------------------------------------------------------------------
(* C11 *)

\* C11 as stated: an accepted White pawn move ends on a strictly greater row
\* index than it started on, an accepted Black pawn move on a strictly smaller.
PawnDirectionAsStated ==
  (PieceCall("Pawn") /\ ret = Ok) =>
    IF pre.player = White THEN RowStep(arg) > 0 ELSE RowStep(arg) < 0

\* C11 amended: an accepted White pawn move ends on a strictly smaller row
\* index than it started on, an accepted Black pawn move on a strictly greater.
PawnDirection ==
  (PieceCall("Pawn") /\ ret = Ok) =>
    IF pre.player = White THEN RowStep(arg) < 0 ELSE RowStep(arg) > 0

\* the Black pawn (1,1) to (1,3), accepted after White's first move
PawnDirectionWitness ==
  /\ ret = Ok
  /\ PieceCall("Pawn")
  /\ pre.player = Black
  /\ arg = Move(Position(1, 1), Position(1, 3))
  /\ At(layout, Position(1, 3)) = Piece("Pawn", Black)

----------------------------------------------------------------------------
(* C12 *)

\* the square a two-row advance passes over
Passed(m) == Position(m.old_pos.x, m.old_pos.y + Sign(RowStep(m)))

\* C12: a pawn move of two squares straight ahead is accepted only if the
\* square passed over and the destination square are both empty.
DoubleAdvanceOntoEmpty ==
  (PieceCall("Pawn") /\ ret = Ok
     /\ FileStep(arg) = 0 /\ RowStep(arg) = 2 * Forward(pre.player))
  => /\ At(pre.layout, Passed(arg)) = Empty
     /\ At(pre.layout, arg.new_pos) = Empty

----------------------------------------------------------------------------
(* C13 *)

\* the last call moved a pawn of the side to move, in bounds
PawnCall ==
  /\ Called /\ InBounds(arg)
  /\ At(pre.layout, arg.old_pos) = Piece("Pawn", pre.player)

\* C13: a pawn move of one square straight ahead is accepted if and only if
\* the destination square is empty.
SingleAdvance ==
  (PawnCall /\ FileStep(arg) = 0 /\ RowStep(arg) = Forward(pre.player))
  => (ret = Ok <=> At(pre.layout, arg.new_pos) = Empty)

\* the White pawn on (4,5) pushed onto the Black pawn standing on (4,4)
SingleAdvanceWitness ==
  /\ ret = ErrInvalid
  /\ PawnCall
  /\ arg = Move(Position(4, 5), Position(4, 4))
  /\ At(pre.layout, arg.new_pos) = Piece("Pawn", Black)
  /\ layout = pre.layout

----------------------------------------------------------------------------
(* C14 *)

\* C14: a pawn move of one file sideways and one row forward is accepted if
\* and only if the destination holds an opponent's piece; onto an empty square
\* it is rejected with the illegal-geometry error.
DiagonalCapture ==
  (PawnCall /\ abs(FileStep(arg)) = 1 /\ RowStep(arg) = Forward(pre.player))
  => /\ ret = Ok <=> colour(At(pre.layout, arg.new_pos)) = next_turn(pre.player)
     /\ At(pre.layout, arg.new_pos) = Empty => ret = ErrInvalid

\* the White pawn on (0,4) takes the Black pawn on (1,3)
DiagonalCaptureWitness ==
  /\ ret = Ok
  /\ PawnCall
  /\ arg = Move(Position(0, 4), Position(1, 3))
  /\ At(pre.layout, arg.new_pos) = Piece("Pawn", Black)
  /\ At(layout, arg.new_pos) = Piece("Pawn", White)

----------------------------------------------------------------------------
(* C15 *)

\* the three pawn shapes: one forward, two forward, one forward and one aside
PawnShape(m, c) ==
  \/ FileStep(m) = 0 /\ RowStep(m) \in {Forward(c), 2 * Forward(c)}
  \/ abs(FileStep(m)) = 1 /\ RowStep(m) = Forward(c)

\* C15: a pawn move of any other shape is never accepted, and is rejected
\* with the illegal-geometry error when the destination is not the mover's own
\* piece.
OtherPawnShapesRejected ==
  (PawnCall /\ ~PawnShape(arg, pre.player))
  => /\ ret # Ok
     /\ colour(At(pre.layout, arg.new_pos)) # pre.player => ret = ErrInvalid

\* the White pawn (0,6) to (0,3) on the starting board
OtherPawnShapesRejectedWitness ==
  /\ ret = ErrInvalid
  /\ PawnCall
  /\ pre = Default
  /\ arg = Move(Position(0, 6), Position(0, 3))

----------------------------------------------------------------------------
(* C16 *)

\* C16: a pawn's two-row advance over an empty square onto an empty square is
\* accepted from any row, and the turn passes to the other side.
DoubleAdvanceAnyRow ==
  (PawnCall /\ FileStep(arg) = 0 /\ RowStep(arg) = 2 * Forward(pre.player)
     /\ At(pre.layout, Passed(arg)) = Empty
     /\ At(pre.layout, arg.new_pos) = Empty)
  => ret = Ok /\ player = next_turn(pre.player)

\* White's (0,6) to (0,4), a Black move, then the same pawn's (0,4) to (0,2)
DoubleAdvanceAnyRowWitness ==
  /\ ret = Ok
  /\ PawnCall
  /\ arg = Move(Position(0, 4), Position(0, 2))
  /\ Len(move_list) = 3
  /\ move_list[1] = Move(Position(0, 6), Position(0, 4))
  /\ At(pre.layout, Position(0, 3)) = Empty
  /\ At(pre.layout, Position(0, 2)) = Empty
  /\ player = Black

----------------------------------------------------------------------------
(* C17 *)

\* C17: a King of the side to move, sent in bounds to a square not holding
\* its own side's piece, is accepted if and only if the longer of |dx|, |dy|
\* is 1, whatever else stands on the board; otherwise the geometry error.
KingStep ==
  PieceCall("King") =>
    IF Reach(arg) = 1 THEN ret = Ok ELSE ret = ErrInvalid

\* the Black King steps diagonally from (4,0) to the vacated (3,1)
KingStepWitness ==
  /\ ret = Ok
  /\ PieceCall("King")
  /\ pre.player = Black
  /\ arg = Move(Position(4, 0), Position(3, 1))
  /\ At(layout, Position(3, 1)) = Piece("King", Black)

----------------------------------------------------------------------------
(* C18 *)

\* C18: a Knight of the side to move, sent in bounds to a square not holding
\* its own side's piece, is accepted if and only if (|dx|,|dy|) is (2,1) or
\* (1,2), whatever stands between; otherwise the geometry error.
KnightJump ==
  PieceCall("Knight") =>
    IF {abs(FileStep(arg)), abs(RowStep(arg))} = {1, 2}
      THEN ret = Ok
      ELSE ret = ErrInvalid

\* the White Knight (1,7) to (2,5) over the pawns of the starting board
KnightJumpWitness ==
  /\ ret = Ok
  /\ PieceCall("Knight")
  /\ pre = Default
  /\ arg = Move(Position(1, 7), Position(2, 5))
  /\ At(pre.layout, Position(1, 6)) # Empty
  /\ At(pre.layout, Position(2, 6)) # Empty
  /\ At(layout, Position(2, 5)) = Piece("Knight", White)

----------------------------------------------------------------------------
(* C19 *)

\* C19: a Bishop of the side to move, sent in bounds to a square not holding
\* its own side's piece, is accepted if and only if |dx| = |dy| and every
\* square strictly between on that diagonal is empty; otherwise the geometry
\* error.
BishopLine ==
  PieceCall("Bishop") =>
    IF /\ abs(FileStep(arg)) = abs(RowStep(arg))
       /\ \A p \in Interior(arg) : At(pre.layout, p) = Empty
      THEN ret = Ok
      ELSE ret = ErrInvalid

\* the White Bishop on (2,4) runs to (0,6) across the empty (1,5)
BishopLineWitness ==
  /\ ret = Ok
  /\ PieceCall("Bishop")
  /\ arg = Move(Position(2, 4), Position(0, 6))
  /\ Interior(arg) = {Position(1, 5)}
  /\ At(layout, Position(0, 6)) = Piece("Bishop", White)

----------------------------------------------------------------------------
(* C20 *)

\* C20: a Rook of the side to move, sent in bounds to a square not holding
\* its own side's piece, is accepted if and only if exactly one of dx, dy is
\* zero and every square strictly between on that file or rank is empty;
\* otherwise the geometry error.
RookLine ==
  PieceCall("Rook") =>
    IF /\ (FileStep(arg) = 0) # (RowStep(arg) = 0)
       /\ \A p \in Interior(arg) : At(pre.layout, p) = Empty
      THEN ret = Ok
      ELSE ret = ErrInvalid

\* the White Rook on (0,5) runs along its rank to (3,5)
RookLineWitness ==
  /\ ret = Ok
  /\ PieceCall("Rook")
  /\ arg = Move(Position(0, 5), Position(3, 5))
  /\ Interior(arg) = {Position(1, 5), Position(2, 5)}
  /\ At(layout, Position(3, 5)) = Piece("Rook", White)

----------------------------------------------------------------------------
(* C21 *)

\* board with the square at position p holding sq
WithSquare(board, p, sq) ==
  Board([board.layout EXCEPT ![p.y][p.x] = sq], board.move_list, board.player)

\* the last call moved a Queen, in bounds
QueenCall ==
  /\ Called /\ InBounds(arg)
  /\ kind(At(pre.layout, arg.old_pos)) = "Queen"

\* what check_valid returns for the last move with a piece of kind k and of
\* the Queen's colour standing in place of the Queen
InPlaceOfQueen(k) ==
  check_valid(
    WithSquare(pre, arg.old_pos, Piece(k, colour(At(pre.layout, arg.old_pos)))),
    arg)

\* C21: a Queen's move is accepted exactly when the same move is accepted for
\* a Bishop or for a Rook of the same colour on the same origin square of the
\* otherwise identical board.
QueenIsBishopOrRook ==
  QueenCall =>
    (ret = Ok <=> (InPlaceOfQueen("Bishop") = Ok \/ InPlaceOfQueen("Rook") = Ok))

\* the White Queen runs (3,7) to (6,4) as a Bishop would and a Rook would not
QueenIsBishopOrRookWitness ==
  /\ ret = Ok
  /\ QueenCall
  /\ arg = Move(Position(3, 7), Position(6, 4))
  /\ InPlaceOfQueen("Bishop") = Ok
  /\ InPlaceOfQueen("Rook") = ErrInvalid
  /\ At(layout, Position(6, 4)) = Piece("Queen", White)

----------------------------------------------------------------------------
(* C22 *)

\* C22: move_list is append-only and ordered: a step that ends in an accepted
\* call appends that call's move at the end of move_list, every other step
\* leaves move_list as it was.
HistoryAppendOnly ==
  [][IF ret' = Ok
       THEN move_list' = Append(move_list, arg')
       ELSE move_list' = move_list]_vars

\* three accepted calls, the last one appended behind the first two
HistoryAppendOnlyWitness ==
  /\ ret = Ok
  /\ Len(move_list) = 3
  /\ move_list[3] = arg
  /\ SubSeq(move_list, 1, 2) = pre.move_list
  /\ move_list[1] # move_list[2] /\ move_list[2] # move_list[3]

----------------------------------------------------------------------------
(* C23 *)

\* move lists other than the one the Board of the last call held
OtherHistories ==
  {<<>>, Line, <<NoMove>>, <<Move(arg.new_pos, arg.old_pos)>>,
   Append(pre.move_list, arg)} \ {pre.move_list}

\* C23: the legality decision never depends on the history: on a Board of
\* equal layout and equal side to move but another move list, check_valid
\* returns for the move what the call returned.
HistoryBlind ==
  Returned =>
    \A ml \in OtherHistories :
       check_valid(Board(pre.layout, ml, pre.player), arg) = ret

\* the pawn brought to (0,4) by the first move of the history advances two
\* rows, as it does on the same grid with no history
HistoryBlindWitness ==
  /\ ret = Ok
  /\ arg = Move(Position(0, 4), Position(0, 2))
  /\ pre.move_list # <<>>
  /\ pre.move_list[1].new_pos = arg.old_pos
  /\ At(pre.layout, arg.new_pos) = Empty
  /\ check_valid(Board(pre.layout, <<>>, pre.player), arg) = Ok

----------------------------------------------------------------------------
(* C24 *)

\* C24: check_valid changes nothing: after a call that returned an error the
\* Board is the Board before the call and check_valid returns that error for
\* the move again; the Board differs from the Board before the call only
\* when check_valid returns Ok for the move on the Board before the call.
CheckValidPure ==
  Called =>
    /\ ret \in Errors => (Self = pre /\ check_valid(Self, arg) = ret)
    /\ Self # pre => (ret = Ok /\ check_valid(pre, arg) = Ok)

\* the Rook's (0,7) to (0,5) through its own pawn: refused, nothing changed,
\* refused again
CheckValidPureWitness ==
  /\ ret = ErrInvalid
  /\ pre = Default
  /\ arg = Move(Position(0, 7), Position(0, 5))
  /\ Self = pre
  /\ check_valid(Self, arg) = ErrInvalid

----------------------------------------------------------------------------
(* C25 *)

\* C25: Board::default() is the initial state: before any pick-up or call
\* the layout is the standard layout, White is to move and the history is
\* empty.
DefaultIsInitial ==
  (picked = <<>> /\ ret = None) =>
    /\ layout = standard
    /\ player = White
    /\ move_list = <<>>

\* the Board as constructed, nothing picked up, no call made
DefaultIsInitialWitness ==
  /\ picked = <<>> /\ ret = None /\ arg = NoMove
  /\ Self = Default
  /\ pre = Self

----------------------------------------------------------------------------
(* C26 *)

\* the back rank as read from file 0 to file 7
BackRankOrder ==
  <<"Rook", "Knight", "Bishop", "Queen", "King", "Bishop", "Knight", "Rook">>

\* the number of squares of layout l that hold sq
Count(l, sq) == Cardinality({p \in Grid : At(l, p) = sq})

----------------------------------------------------------------------------
(* C27 *)

\* layout l holds no King of colour c
Kingless(l, c) == Count(l, Piece("King", c)) = 0

\* the last call, in bounds, had a King on its destination square
KingTargeted ==
  /\ Called /\ InBounds(arg)
  /\ kind(At(pre.layout, arg.new_pos)) = "King"

\* what check_valid returns for the last move with a Pawn of the King's
\* colour standing in place of the King on the destination
InPlaceOfKing ==
  check_valid(
    WithSquare(pre, arg.new_pos,
               Piece("Pawn", colour(At(pre.layout, arg.new_pos)))),
    arg)

\* C27: a move onto the opponent's King is decided like any other capture,
\* and on a Board that has lost a King move_piece goes on deciding by the
\* same rules: there is no game-over state.
KingCapturedLikeAny ==
  /\ KingTargeted => ret = InPlaceOfKing
  /\ (Called /\ \E c \in {White, Black} : Kingless(pre.layout, c)) =>
       /\ ret = check_valid(pre, arg)
       /\ ret = Ok =>
            /\ layout = MovedLayout(pre.layout, arg)
            /\ player = next_turn(pre.player)

\* the White Queen on (4,2) takes the Black King on (4,0): a Board with no
\* Black King, Black to move
KingCapturedLikeAnyWitness ==
  /\ ret = Ok
  /\ KingTargeted
  /\ arg = Move(Position(4, 2), Position(4, 0))
  /\ At(pre.layout, arg.new_pos) = Piece("King", Black)
  /\ Len(pre.move_list) = 14
  /\ Kingless(layout, Black)
  /\ player = Black

----------------------------------------------------------------------------
(* C28 *)

\* every piece there is: a kind and a colour
AllPieces ==
  {Piece(k, c) : k \in {"King", "Queen", "Rook", "Bishop", "Knight", "Pawn"},
                 c \in {White, Black}}

\* the number of occupied squares of layout l
Pieces(l) == Cardinality({p \in Grid : At(l, p) # Empty})

\* C28: an accepted move keeps, for every kind and colour, the number of
\* pieces, less the one piece that stood on the destination, which is the
\* opponent's; so the total is unchanged onto an empty square and one lower
\* on a capture; move_list gains the move's two positions and nothing of
\* what was taken.
PiecesConserved ==
  (ret = Ok /\ InBounds(arg)) =>
    LET taken == At(pre.layout, arg.new_pos)
    IN  /\ \A sq \in AllPieces :
             Count(layout, sq) =
               Count(pre.layout, sq) - (IF taken = sq THEN 1 ELSE 0)
        /\ Pieces(layout) = Pieces(pre.layout) - (IF taken = Empty THEN 0 ELSE 1)
        /\ taken # Empty => colour(taken) = next_turn(pre.player)
        /\ DOMAIN move_list[Len(move_list)] = {"old_pos", "new_pos"}

\* the White Rook on (3,5) takes the Black pawn on (3,3): 31 pieces left of
\* 32, seven Black pawns
PiecesConservedWitness ==
  /\ ret = Ok
  /\ arg = Move(Position(3, 5), Position(3, 3))
  /\ At(pre.layout, arg.new_pos) = Piece("Pawn", Black)
  /\ Pieces(pre.layout) = 32
  /\ Pieces(layout) = 31
  /\ Count(layout, Piece("Pawn", Black)) = 7
  /\ Count(layout, Piece("Rook", White)) = 2

----------------------------------------------------------------------------
(* C29 *)

\* the first of the five failures that a move meets on a Board, judged by
\* the squares alone; "Rule" stands for a move that meets none of the first
\* four and is left to the piece's rule
FailureClass(board, m) ==
  IF ~InBounds(m) THEN "OutOfBounds"
  ELSE IF At(board.layout, m.old_pos) = Empty THEN "EmptyOrigin"
  ELSE IF colour(At(board.layout, m.old_pos)) # board.player
    THEN "WrongPlayer"
  ELSE IF colour(At(board.layout, m.new_pos)) = board.player
    THEN "SelfCapture"
  ELSE "Rule"

\* the values a call may return for a failure class
ValuesOf(class) ==
  CASE class = "OutOfBounds" -> {ErrOrigin, ErrDestination}
    [] class = "EmptyOrigin" -> {ErrEmpty}
    [] class = "WrongPlayer" -> {ErrOpponent}
    [] class = "SelfCapture" -> {ErrOwn}
    [] class = "Rule" -> {ErrInvalid, Ok}

\* C29: the value returned identifies the failure class: no two classes
\* share a value, and a call whose move fails in a class returns a value of
\* that class.
ErrorIdentifiesClass ==
  /\ Cardinality(Errors \cup {Ok}) = 7
  /\ Called => ret \in ValuesOf(FailureClass(pre, arg))

----------------------------------------------------------------------------
(* C30 *)

\* m runs along a file, a rank or a diagonal and is not a null move
OnALine(m) ==
  \/ (FileStep(m) = 0) # (RowStep(m) = 0)
  \/ abs(FileStep(m)) = abs(RowStep(m)) /\ FileStep(m) # 0

\* the square sq replaced by another content: a piece taken off, or a pawn
\* put on an empty square
Flipped(sq) == IF sq = Empty THEN Piece("Pawn", White) ELSE Empty

\* C30: along a file, a rank or a diagonal between two squares of the grid,
\* is_path_empty is false exactly when one of the max(|dx|,|dy|) - 1 squares
\* strictly between is occupied, and its result is the same whatever stands
\* on the origin, on the destination or on any square off the line.
PathScan ==
  (Called /\ InBounds(arg) /\ OnALine(arg)) =>
    /\ is_path_empty(arg, pre) =
         (\A p \in Interior(arg) : At(pre.layout, p) = Empty)
    /\ Cardinality(Interior(arg)) = Reach(arg) - 1
    /\ \A p \in Grid \ Interior(arg) :
         is_path_empty(arg, WithSquare(pre, p, Flipped(At(pre.layout, p))))
           = is_path_empty(arg, pre)

\* the diagonal (2,4) to (0,2): the Black pawn on (1,3) stands between, and
\* the scan says so with or without the Bishop on the destination
PathScanWitness ==
  /\ Called
  /\ arg = Move(Position(2, 4), Position(0, 2))
  /\ Interior(arg) = {Position(1, 3)}
  /\ At(pre.layout, Position(1, 3)) = Piece("Pawn", Black)
  /\ At(pre.layout, arg.new_pos) = Piece("Bishop", Black)
  /\ ~is_path_empty(arg, pre)
  /\ ~is_path_empty(arg, WithSquare(pre, arg.new_pos, Empty))

----------------------------------------------------------------------------
(* C32 *)

\* the last call, in bounds, had its origin for destination
NullCall == Called /\ InBounds(arg) /\ arg.old_pos = arg.new_pos

\* C32: a null move is never accepted: it returns an error, the self-capture
\* error when the square holds a piece of the side to move; so the turn never
\* passes without a piece changing square.
NullMoveRejected ==
  /\ NullCall =>
       /\ ret \in Errors
       /\ colour(At(pre.layout, arg.old_pos)) = pre.player => ret = ErrOwn
  /\ (Called /\ player # pre.player) =>
       /\ arg.old_pos # arg.new_pos
       /\ layout # pre.layout

\* the Black Bishop on (0,2) sent to (0,2): a diagonal of length 0 with an
\* empty path, refused as a capture of Black's own piece
NullMoveRejectedWitness ==
  /\ ret = ErrOwn
  /\ NullCall
  /\ pre.player = Black
  /\ At(pre.layout, arg.old_pos) = Piece("Bishop", Black)
  /\ arg.old_pos = Position(0, 2)
  /\ BishopValid(arg, pre)

----------------------------------------------------------------------------
(* C33 *)

RECURSIVE LayoutAfter(_, _)
\* the layout after the first n moves of ml are carried out from the
\* standard layout
LayoutAfter(ml, n) ==
  IF n = 0 THEN standard ELSE MovedLayout(LayoutAfter(ml, n - 1), ml[n])

\* the colour of the piece that made the i-th entry of ml (counting from 1)
MoverOf(ml, i) == colour(At(LayoutAfter(ml, i - 1), ml[i].old_pos))

\* C33: from Board::default(), White is to move exactly when the history
\* length is even, and the entry of index i (counting from 0) was made by
\* White exactly when i is even.
TurnParity ==
  /\ player = White <=> Len(move_list) % 2 = 0
  /\ player = Black <=> Len(move_list) % 2 = 1
  /\ \A i \in 1..Len(move_list) :
       MoverOf(move_list, i) = IF (i - 1) % 2 = 0 THEN White ELSE Black
  /\ LayoutAfter(move_list, Len(move_list)) = layout

\* three accepted moves: White, Black, White, and Black to move
TurnParityWitness ==
  /\ Len(move_list) = 3
  /\ player = Black
  /\ MoverOf(move_list, 1) = White
  /\ MoverOf(move_list, 2) = Black
  /\ MoverOf(move_list, 3) = White

----------------------------------------------------------------------------
(* C34 *)

\* C34: from Board::default(), the grid has 8 rows of 8 squares in every
\* state, and every history entry has its four coordinates below 8 and an
\* origin different from its destination.
GridAndHistoryShape ==
  /\ len(layout) = 8
  /\ DOMAIN layout = 0..7
  /\ \A y \in 0..7 : len(layout[y]) = 8 /\ DOMAIN layout[y] = 0..7
  /\ \A i \in 1..Len(move_list) :
       /\ InBounds(move_list[i])
       /\ move_list[i].old_pos # move_list[i].new_pos

\* the seventeenth entry of a history, made on the Board that held sixteen
GridAndHistoryShapeWitness ==
  /\ ret = Ok
  /\ Len(move_list) = Len(Line) + 1
  /\ move_list[Len(move_list)] = arg
  /\ len(layout) = 8

----------------------------------------------------------------------------
(* C35 *)

\* C35: no White pawn stands on row 7 and no Black pawn on row 0, and each
\* accepted pawn move changes the pawn's row by one or two in the one
\* direction of its colour.
PawnsNeverRetreat ==
  /\ \A x \in 0..7 :
       /\ layout[7][x] # Piece("Pawn", White)
       /\ layout[0][x] # Piece("Pawn", Black)
  /\ (PawnCall /\ ret = Ok) =>
       RowStep(arg) \in {Forward(pre.player), 2 * Forward(pre.player)}

\* the White pawn on (3,6) sent back to (3,7), which the Queen has left
PawnsNeverRetreatWitness ==
  /\ ret = ErrInvalid
  /\ PawnCall
  /\ pre.player = White
  /\ arg = Move(Position(3, 6), Position(3, 7))
  /\ At(pre.layout, arg.new_pos) = Empty
  /\ layout = pre.layout

----------------------------------------------------------------------------
(* C36 *)

\* the parity of x + y of a position
Parity(p) == (p.x + p.y) % 2

\* C36: an accepted Bishop move keeps the parity of x + y, and each colour
\* has at most one Bishop on the squares of each parity.
BishopsKeepParity ==
  /\ (PieceCall("Bishop") /\ ret = Ok) =>
       Parity(arg.new_pos) = Parity(arg.old_pos)
  /\ LET bishops == {p \in Grid : At(layout, p).piece_kind = "Bishop"}
     IN  \A p, q \in bishops :
           (/\ p # q
            /\ At(layout, p).piece_colour = At(layout, q).piece_colour)
              => Parity(p) # Parity(q)

\* the White Bishop's (2,4) to (4,6), an even square for an even square, the
\* other White Bishop on its odd square
BishopsKeepParityWitness ==
  /\ ret = Ok
  /\ PieceCall("Bishop")
  /\ arg = Move(Position(2, 4), Position(4, 6))
  /\ At(layout, Position(4, 6)) = Piece("Bishop", White)
  /\ At(layout, Position(2, 7)) = Piece("Bishop", White)
  /\ Parity(Position(4, 6)) # Parity(Position(2, 7))

----------------------------------------------------------------------------
(* C39 *)

\* the last move came through the four tests of the bounds check: the check
\* returned Ok, or the panic is that of the two square reads after the tests
PassedBoundsTests ==
  /\ Called
  /\ \/ BoundsCheck(pre, arg) = Ok
     \/ /\ BoundsCheck(pre, arg) = Panic
        /\ InVec(pre.layout, arg.old_pos.y)
        /\ InVec(pre.layout, arg.new_pos.y)

\* the values of i8
I8 == -128..127

\* C39: for a move that the bounds tests let through, every cast to i8 keeps
\* the coordinate, every difference of two casts is the true difference and
\* fits i8, and no difference on which abs() is taken is i8::MIN.
CastsExact ==
  PassedBoundsTests =>
    /\ \A n \in {arg.old_pos.x, arg.old_pos.y, arg.new_pos.x, arg.new_pos.y} :
         AsI8(n) = n
    /\ DX(arg) = arg.old_pos.x - arg.new_pos.x
    /\ DY(arg) = arg.old_pos.y - arg.new_pos.y
    /\ DX(arg) \in I8 \ {-128}
    /\ DY(arg) \in I8 \ {-128}

\* the widest differences the tests let through: (8,0) to (0,7)
CastsExactWitness ==
  /\ PassedBoundsTests
  /\ arg = Move(Position(8, 0), Position(0, 7))
  /\ DX(arg) = 8
  /\ DY(arg) = -7
  /\ ret = Panic

----------------------------------------------------------------------------
(* The drag-and-drop handlers *)

\* this step is a release of a dragged entity that called board.move_piece
ReleaseCalled ==
  /\ button = "down"
  /\ button' = "up"
  /\ cursor_piece # <<>>
  /\ ret' # None

\* C31: a release over a square whose move board.move_piece rejects leaves
\* the dragged entity's Position, puts its sprite back on its origin square,
\* despawns nothing and ends the drag; a Position is set and an entity
\* despawned only by a release whose move returned Ok, which sets the dragged
\* entity's Position to the destination and despawns at most the one other
\* piece entity under the pointer.
RejectedDropSnapsBack ==
  [][/\ (ReleaseCalled /\ ret' \in Errors) =>
          /\ position' = position
          /\ sprite'[cursor_piece[1]] = position[cursor_piece[1]]
          /\ live' = live
          /\ cursor_piece' = <<>>
     /\ (position' # position \/ live' # live) =>
          /\ ReleaseCalled
          /\ ret' = Ok
          /\ position' = [position EXCEPT ![cursor_piece[1]] = arg'.new_pos]
          /\ Cardinality(live \ live') <= 1
          /\ \A q \in live \ live' :
                /\ ~q.tile
                /\ q # cursor_piece[1]
                /\ sprite[q] = arg'.new_pos
          /\ cursor_piece' = <<>>]_vars

\* the pawn of (0,6) dropped on the own pawn of (1,6): rejected, the other
\* pawn's entity lives on and the dragged sprite is back on (0,6)
RejectedDropSnapsBackWitness ==
  /\ ret = ErrOwn
  /\ arg = Move(Position(0, 6), Position(1, 6))
  /\ button = "up"
  /\ cursor_piece = <<>>
  /\ live = Entities
  /\ position[PieceEnt(Position(0, 6))] = Position(0, 6)
  /\ sprite[PieceEnt(Position(0, 6))] = Position(0, 6)

\* C37: with the left button up no entity is being dragged: the handler
\* invocation of the release ended the drag, over a square or off the board.
ReleaseEndsDrag == button = "up" => cursor_piece = <<>>

\* C38: only piece entities are picked up, every live piece entity's
\* Position is a square of the layout holding that entity's piece, and every
\* occupied square has exactly one live piece entity (on the squares the
\* pointer goes over, whose entities are the ones the handlers reach).
DisplayMirrorsBoard ==
  /\ cursor_piece # <<>> => ~cursor_piece[1].tile
  /\ \A e \in live : ~e.tile =>
        /\ position[e] \in UISquares
        /\ At(layout, position[e]) = SquareOf(e)
  /\ \A p \in UISquares : At(layout, p) # Empty =>
        Cardinality({e \in live : ~e.tile /\ position[e] = p}) = 1

====
